---- MODULE Spec2Model ----
(***************************************************************************)
(* Model of backend/lambda_function.py: the single-region status check,    *)
(* the external observer aggregation with its DynamoDB cache, and the      *)
(* multi-region orchestration.                                             *)
(***************************************************************************)
EXTENDS Integers, Sequences, FiniteSets, TLC

(***************************************************************************)
(* Values shared by all parts                                              *)
(***************************************************************************)

\* Python's None
None == [tag |-> "None"]

\* an exception leaving a function (the value stands for "raised")
Raised == [tag |-> "Raised"]

\* a key that a dict does not have
Absent == [tag |-> "absent"]

\* no request was handled yet, no check was run yet
NoResp == [tag |-> "no response"]

NoCheck == [tag |-> "no check"]

(***************************************************************************)
(* URLs.  A URL string is a sequence of tokens; each token is a piece of   *)
(* the string that urlparse and str.startswith treat as a unit.            *)
(*   "https://x.com"      <<"https://", "x.com">>                          *)
(*   "x.com"              <<"x.com">>                                      *)
(*   "ftp://x.com"        <<"ftp:", "//", "x.com">>                        *)
(*   "not a url"          <<"not a url">>                                  *)
(*   "https://"           <<"https://">>                                   *)
(*   "https://x.com:abc"  <<"https://", "x.com", ":abc">>                  *)
(*   "http://[bad"        <<"http://", "[bad">>                            *)
(*   ""                   << >>                                            *)
(***************************************************************************)
U_https == <<"https://", "x.com">>
U_other == <<"https://", "y.org">>
U_bare == <<"x.com">>
U_ftp == <<"ftp:", "//", "x.com">>
U_text == <<"not a url">>
U_nohost == <<"https://">>
U_badport == <<"https://", "x.com", ":abc">>
U_ipv6 == <<"http://", "[bad">>
U_empty == << >>

Urls == {U_https, U_other, U_bare, U_ftp, U_text, U_nohost, U_badport, U_ipv6, U_empty}

\* url.startswith(('http://', 'https://'))
startswith_http(url) == Len(url) > 0 /\ url[1] \in {"http://", "https://"}

\* the "Ensure protocol" step: 'https://' + url unless it starts with http(s)://
ensure_protocol(url) == IF startswith_http(url) THEN url ELSE <<"https://">> \o url

\* the tokens of s up to the first token that starts a path
RECURSIVE NetlocOf(_)
NetlocOf(s) ==
    IF s = << >> \/ Head(s) \in {"//", "/"} THEN << >>
    ELSE <<Head(s)>> \o NetlocOf(Tail(s))

\* urllib.parse.urlparse: scheme and netloc, or Raised (ValueError, "Invalid IPv6 URL")
urlparse(url) ==
    LET split ==
            IF url = << >> THEN [scheme |-> "", netloc |-> << >>]
            ELSE IF url[1] = "http://" THEN [scheme |-> "http", netloc |-> NetlocOf(Tail(url))]
            ELSE IF url[1] = "https://" THEN [scheme |-> "https", netloc |-> NetlocOf(Tail(url))]
            ELSE IF url[1] = "ftp:" /\ Len(url) >= 2 /\ url[2] = "//"
                 THEN [scheme |-> "ftp", netloc |-> NetlocOf(SubSeq(url, 3, Len(url)))]
            ELSE [scheme |-> "", netloc |-> << >>]
    IN  IF \E i \in 1..Len(split.netloc) : split.netloc[i] = "[bad" THEN Raised ELSE split

\* ParseResult.hostname of an empty netloc (Python's None, among host strings)
NoHostname == "None"

\* ParseResult.hostname: the netloc without port, None when the netloc is empty
hostname(parsed) ==
    IF parsed.netloc = << >> THEN NoHostname
    ELSE IF parsed.netloc[1] = "ftp:" THEN "ftp"
    ELSE parsed.netloc[1]

\* ParseResult.port: None without a port, Raised (ValueError) for a non-numeric port
port_of(parsed) ==
    IF Len(parsed.netloc) >= 2 /\ parsed.netloc[2] = ":abc" THEN Raised ELSE None

\* is_valid_url: the bare except turns a ValueError of urlparse into False
is_valid_url(url) ==
    LET p == urlparse(ensure_protocol(url))
    IN  IF p = Raised THEN FALSE
        ELSE p.scheme \in {"http", "https"} /\ p.netloc # << >>

(***************************************************************************)
(* The probe set and the local verdict                                     *)
(***************************************************************************)

\* dns_servers of check_dns_resolution
dns_servers == <<"8.8.8.8", "1.1.1.1", "208.67.222.222">>

\* the outcome of one socket.gethostbyname call: an address or an exception
ResolveOutcomes == {"ip", "exc"}

\* one outcome per resolver attempt
DnsOutcomes == [1..Len(dns_servers) -> ResolveOutcomes]

HttpOutcomes == {"success", "timeout", "error"}

PortOutcomes == {"open", "closed", "error"}

\* the number of entries of results with status 'success'
RECURSIVE CountSuccess(_)
CountSuccess(results) ==
    IF results = << >> THEN 0
    ELSE (IF Head(results).status = "success" THEN 1 ELSE 0) + CountSuccess(Tail(results))

check_dns_resolution_bug_all(outs) ==
    LET results == [i \in 1..Len(dns_servers) |->
                       [dns_server |-> dns_servers[i],
                        status |-> IF outs[i] = "ip" THEN "success" ELSE "failed"]]
        success == CountSuccess(results)
    IN  [overall_status |-> IF success = Len(dns_servers) THEN "success" ELSE "failed",
         success_count |-> success,
         total_servers |-> Len(dns_servers),
         results |-> results]

\* check_dns_resolution: outs[i] is what gethostbyname did on the i-th attempt
check_dns_resolution(outs) ==
    LET results == [i \in 1..Len(dns_servers) |->
                       [dns_server |-> dns_servers[i],
                        status |-> IF outs[i] = "ip" THEN "success" ELSE "failed"]]
        success == CountSuccess(results)
    IN  [overall_status |-> IF success > 0 THEN "success" ELSE "failed",
         success_count |-> success,
         total_servers |-> Len(dns_servers),
         results |-> results]

\* check_http_response: requests.get answered, timed out, or failed otherwise
check_http_response(out) == [status |-> out]

\* check_port_connectivity: connect_ex returned 0, returned an errno, or raised
check_port_connectivity(port, out) == [port |-> port, status |-> out]

determine_overall_status_bug_order(checks) ==
    LET dns_ok == checks.dns.overall_status = "success"
        http_ok == checks.http.status = "success"
        port_ok == checks.port.status = "open"
    IN  IF dns_ok /\ port_ok THEN "partial"
        ELSE IF http_ok THEN "up"
        ELSE IF dns_ok THEN "dns_only"
        ELSE "down"

determine_overall_status(checks) ==
    LET dns_ok == checks.dns.overall_status = "success"
        http_ok == checks.http.status = "success"
        port_ok == checks.port.status = "open"
    IN  IF http_ok THEN "up"
        ELSE IF dns_ok /\ port_ok THEN "partial"
        ELSE IF dns_ok THEN "dns_only"
        ELSE "down"

\* generate_status_summary: the three parts, in the order they are joined
generate_status_summary(checks) ==
    << IF checks.dns.overall_status = "success" THEN "DNS OK" ELSE "DNS fail",
       IF checks.http.status = "success" THEN "HTTP OK" ELSE checks.http.status,
       IF checks.port.status = "open" THEN "Port open" ELSE "Port closed" >>

\* what the three probes did in one check
ProbeOutcomes == [dns : DnsOutcomes, http : HttpOutcomes, port : PortOutcomes]

\* check_website_status: the result dict, or Raised when urlparse or .port raises
check_website_status(url, po) ==
    LET u == ensure_protocol(url)
        parsed == urlparse(u)
    IN  IF parsed = Raised THEN Raised
        ELSE IF port_of(parsed) = Raised THEN Raised
        ELSE LET host == hostname(parsed)
                 port == IF parsed.scheme = "https" THEN 443 ELSE 80
                 checks == [dns |-> check_dns_resolution(po.dns),
                            http |-> check_http_response(po.http),
                            port |-> check_port_connectivity(port, po.port)]
             IN  [url |-> u,
                  domain |-> host,
                  status |-> determine_overall_status(checks),
                  detailed_checks |-> checks,
                  summary |-> generate_status_summary(checks)]

(***************************************************************************)
(* The external observers                                                  *)
(***************************************************************************)

Observers == {"downforeveryoneorjustme", "isitdownrightnow", "websiteplanet"}

\* a Python int, and the decimal.Decimal that boto3 hands back for a stored number
PyInt(n) == [type |-> "int", value |-> n]

Decimal(n) == [type |-> "Decimal", value |-> n]

\* what one requests call of an observer did: a response, or an exception
Resp(code, text) == [kind |-> "resp", code |-> code, text |-> text]

NetExc == [kind |-> "exc", code |-> 0, text |-> << >>]

\* r.text.lower() of the downforeveryoneorjustme page, as words
TextJustYou == <<"it's", "just", "you">>

TextNotJustYou == <<"it's", "not", "just", "you">>

TextNeither == <<"try", "again">>

\* Python's  pat in txt
IsIn(pat, txt) ==
    \E i \in 0..(Len(txt) - Len(pat)) : SubSeq(txt, i + 1, i + Len(pat)) = pat

\* what the network can do to each observer's request(s)
ObserverNets ==
    [downforeveryoneorjustme |->
        {<<Resp(200, TextJustYou)>>, <<Resp(200, TextNotJustYou)>>,
         <<Resp(200, TextNeither)>>, <<Resp(503, TextNeither)>>, <<NetExc>>},
     isitdownrightnow |-> {<<Resp(200, << >>)>>, <<Resp(404, << >>)>>, <<Resp(503, << >>)>>,
                           <<NetExc>>},
     websiteplanet |-> {<<Resp(200, << >>), Resp(200, << >>)>>, <<NetExc, Resp(503, << >>)>>,
                        <<Resp(503, << >>), Resp(200, << >>)>>, <<NetExc, NetExc>>}]

\* the network outcomes the aggregator's state machine is explored with
AggNets ==
    [downforeveryoneorjustme |-> {<<Resp(200, TextJustYou)>>, <<Resp(200, TextNeither)>>, <<NetExc>>},
     isitdownrightnow |-> {<<Resp(200, << >>)>>, <<NetExc>>},
     websiteplanet |-> {<<Resp(200, << >>), Resp(200, << >>)>>, <<NetExc, NetExc>>}]

\* check_downforeveryoneorjustme: a dict, None, or Raised (urlparse is outside the try)
check_downforeveryoneorjustme(url, net) ==
    LET parsed == urlparse(url)
    IN  IF parsed = Raised THEN Raised
        ELSE IF net[1].kind = "exc" THEN None
        ELSE IF IsIn(<<"just", "you">>, net[1].text) THEN [status |-> "up"]
        ELSE IF IsIn(<<"not", "just", "you">>, net[1].text) THEN [status |-> "down"]
        ELSE [status |-> "unknown"]

\* check_isitdownrightnow: requests.head on http://{domain}; an empty domain is an invalid URL
check_isitdownrightnow(url, net) ==
    LET parsed == urlparse(url)
    IN  IF parsed = Raised THEN Raised
        ELSE IF parsed.netloc = << >> \/ net[1].kind = "exc"
             THEN [status |-> "down", error |-> "Connection failed"]
        ELSE [status |-> IF net[1].code < 400 THEN "up" ELSE "down",
              status_code |-> PyInt(net[1].code)]

\* one entry of websiteplanet's protocols list
ProtocolResult(p, domain, r) ==
    IF domain = << >> \/ r.kind = "exc"
    THEN [protocol |-> p, status |-> "down", error |-> "Connection failed"]
    ELSE [protocol |-> p, status |-> IF r.code < 400 THEN "up" ELSE "down",
          status_code |-> PyInt(r.code)]

\* check_websiteplanet: https then http; up when either protocol is up
check_websiteplanet(url, net) ==
    LET parsed == urlparse(url)
    IN  IF parsed = Raised THEN Raised
        ELSE LET results == <<ProtocolResult("https", parsed.netloc, net[1]),
                              ProtocolResult("http", parsed.netloc, net[2])>>
                 up == \E i \in 1..2 : results[i].status = "up"
             IN  [status |-> IF up THEN "up" ELSE "down", protocols |-> results]

\* the callable submitted to the executor for svc
RunObserver(svc, url, net) ==
    IF svc = "downforeveryoneorjustme" THEN check_downforeveryoneorjustme(url, net)
    ELSE IF svc = "isitdownrightnow" THEN check_isitdownrightnow(url, net)
    ELSE check_websiteplanet(url, net)

(***************************************************************************)
(* The cache gateway.  The table maps a url to its item, or to NoItem.     *)
(***************************************************************************)

NoItem == [tag |-> "no item"]

\* timedelta(minutes=5) of get_cached_external_result, in minutes
FreshnessMinutes == 5

\* timedelta(minutes=10) of cache_external_result, in minutes
TtlMinutes == 10

\* datetime.isoformat and datetime.fromisoformat, on a time in minutes
isoformat(t) == <<"iso", t>>

fromisoformat(s) == s[2]

\* what a DynamoDB call can do: answer, raise ClientError, raise something else
StoreOutcomes == {"ok", "ClientError", "Exception"}

\* the checks dict: one field per observer, Absent for a key the dict lacks
EmptyChecks == [o \in Observers |-> Absent]

Keys(d) == {o \in Observers : d[o] # Absent}

\* Python truthiness of a checks dict or None
Truthy(v) == v # None /\ Keys(v) # {}

\* what the boto3 resource returns for a stored dict: every number is a Decimal
FromStoredFields(e) ==
    [k \in DOMAIN e |-> IF k = "status_code" THEN Decimal(e[k].value) ELSE e[k]]

FromStoredEntry(e) ==
    [k \in DOMAIN e |->
        IF k = "status_code" THEN Decimal(e[k].value)
        ELSE IF k = "protocols" THEN [i \in DOMAIN e[k] |-> FromStoredFields(e[k][i])]
        ELSE e[k]]

\* item['data'] as get_item returns it
FromStored(data) ==
    [o \in Observers |-> IF data[o] = Absent THEN Absent ELSE FromStoredEntry(data[o])]

\* whether an observer entry holds a Decimal
EntryHasDecimal(e) ==
    \/ "status_code" \in DOMAIN e /\ e.status_code.type = "Decimal"
    \/ "protocols" \in DOMAIN e /\
           \E i \in DOMAIN e.protocols :
               "status_code" \in DOMAIN e.protocols[i] /\ e.protocols[i].status_code.type = "Decimal"

\* json.dumps raises TypeError on a mapping that holds a Decimal
HasDecimal(data) == \E o \in Keys(data) : EntryHasDecimal(data[o])

get_cached_external_result_bug_le(table, url, t, rd) ==
    IF rd # "ok" THEN None
    ELSE LET item == table[url]
         IN  IF item # NoItem /\ t - fromisoformat(item.timestamp) <= FreshnessMinutes
             THEN FromStored(item.data)
             ELSE None

\* get_cached_external_result at time t; rd is what table.get_item did
get_cached_external_result(table, url, t, rd) ==
    IF rd # "ok" THEN None
    ELSE LET item == table[url]
         IN  IF item # NoItem /\ t - fromisoformat(item.timestamp) < FreshnessMinutes
             THEN FromStored(item.data)
             ELSE None

cache_external_result_bug_merge(table, url, data, t, wr) ==
    IF wr # "ok" THEN table
    ELSE [table EXCEPT ![url] =
             [data |-> IF @ = NoItem THEN data
                       ELSE [o \in Observers |-> IF data[o] # Absent THEN data[o] ELSE @.data[o]],
              timestamp |-> isoformat(t),
              ttl |-> t + TtlMinutes]]

\* cache_external_result at time t; wr is what table.put_item did: the table afterwards
cache_external_result(table, url, data, t, wr) ==
    IF wr # "ok" THEN table
    ELSE [table EXCEPT ![url] = [data |-> data,
                                 timestamp |-> isoformat(t),
                                 ttl |-> t + TtlMinutes]]

(***************************************************************************)
(* The external corroboration aggregator                                   *)
(***************************************************************************)

\* checks[k] = v
DictSet(d, k, v) == [d EXCEPT ![k] = v]

\* the body of the as_completed loop for the finished future of svc with outcome r
RecordOutcome(checks, svc, r) ==
    IF r = Raised THEN DictSet(checks, svc, [status |-> "error", error |-> "exception"])
    ELSE IF r = None THEN checks
    ELSE DictSet(checks, svc, r)

ReturnAfterStore_bug_fatal(checks, wr) ==
    IF Keys(checks) # {} /\ wr # "ok" THEN None ELSE checks

\* "if checks: cache_external_result(url, checks)" and then "return checks": put_item
\* doing wr changes nothing in what is returned
ReturnAfterStore(checks, wr) == checks

OnAggregatorException_bug_reraise == Raised

\* the outer handler of get_external_status_checks: what the caller gets on any exception
OnAggregatorException == None

(***************************************************************************)
(* Responses and the multi-region orchestrator                             *)
(***************************************************************************)

\* json.dumps and json.loads: a JSON text carries the value it encodes
json_dumps(v) == <<"json", v>>

json_loads(text) == text[2]

\* a text that json.loads rejects
NotJson == <<"text", [tag |-> "not json"]>>

\* whether json.loads accepts the text
IsJson(text) == text[1] = "json"

\* the JSON value null, which json.loads turns into None
JsonNull == [tag |-> "json null"]

\* cors_response, without its constant headers
cors_response(status_code, body) == [statusCode |-> status_code, body |-> json_dumps(body)]

\* what the invocation of one peer region does
PeerInvokeError == [kind |-> "invoke_error"]

PeerMalformedPayload == [kind |-> "malformed_payload"]

PeerResponse(code, body) == [kind |-> "response", statusCode |-> code, body |-> body]

PeerNotInvoked == [kind |-> "not invoked"]

\* the result dict a peer's lambda_handler puts in its body
PeerResult(st) == [status |-> st, region |-> "peer"]

PeerOutcomes ==
    {PeerInvokeError, PeerMalformedPayload,
     PeerResponse(500, json_dumps([error |-> "Internal server error"])),
     PeerResponse(200, NotJson),
     PeerResponse(200, json_dumps(JsonNull)),
     PeerResponse(200, json_dumps(PeerResult("up"))),
     PeerResponse(200, json_dumps(PeerResult("partial"))),
     PeerResponse(200, json_dumps(PeerResult("down")))}

\* the entries OTHER_REGIONS.split(',') can have: a region name or an empty string
RegionEntries == {"eu-west-1", ""}

\* at most MaxPeers entries in OTHER_REGIONS
MaxPeers == 2

RegionLists == UNION {[1..n -> RegionEntries] : n \in 1..MaxPeers}

\* the loop invokes entry i: the list's first entry is not empty and r.strip() is not
Invoked(regions, i) == regions[1] # "" /\ regions[i] # ""

CollectPeer_bug_any_status(other_results, out) ==
    IF out.kind # "response" THEN other_results
    ELSE IF ~IsJson(out.body) THEN other_results
    ELSE Append(other_results, json_loads(out.body))

\* the try block of the peer loop: append the peer's body on statusCode 200, and let
\* the except swallow whatever invoke, read or json.loads raises
CollectPeer(other_results, out) ==
    IF out.kind # "response" THEN other_results
    ELSE IF out.statusCode # 200 THEN other_results
    ELSE IF ~IsJson(out.body) THEN other_results
    ELSE Append(other_results, json_loads(out.body))

\* x.get('status') of a dict
GetStatus(x) == IF "status" \in DOMAIN x THEN x.status ELSE "None"

RegionsUp_bug_only_up(all_res) ==
    Cardinality({i \in 1..Len(all_res) : GetStatus(all_res[i]) = "up"})

\* the number of entries of all_res whose status is 'up' or 'partial'
RegionsUp(all_res) ==
    Cardinality({i \in 1..Len(all_res) : GetStatus(all_res[i]) \in {"up", "partial"}})

\* overall of multi_region_check
Consensus(up, total) ==
    IF up = total THEN "up" ELSE IF up > 0 THEN "mixed" ELSE "down"

\* analyze_multi_region_results
analyze_multi_region_results(results) ==
    LET total == Len(results)
        up == RegionsUp(results)
    IN  IF results = << >> THEN <<"No results to analyze">>
        ELSE IF up = total THEN <<"Website accessible from all tested regions">>
        ELSE IF up = 0 THEN <<"Website appears down globally">>
        ELSE <<"Mixed: ", up, "/", total, " regions can reach it">>

\* the urls the aggregator is called with
AggUrls == {U_https, U_ipv6}

\* concurrent callers of get_external_status_checks
Callers == {"c1", "c2"}

\* the callers that call one after the other
SeqCallers == {"c1"}

\* the clock stops at MaxTime minutes
MaxTime == 5

VARIABLES
    now,         \* datetime.utcnow(), in minutes
    table,       \* the DynamoDB table: url -> item of type 'external', or NoItem
    aggPc,       \* where each caller is in get_external_status_checks
    aggUrl,      \* its url argument
    aggChecks,   \* its checks dict
    aggPending,  \* the futures as_completed has not yielded yet
    aggRet,      \* what the call returned
    aggSeen,     \* what the table held, and the time, when the call read the cache
    aggObs,      \* what each observer call of this fan-out did
    aggWrite     \* the cache write of the call: the data, the time, what put_item did

aggVars == <<now, table, aggPc, aggUrl, aggChecks, aggPending, aggRet, aggSeen, aggObs, aggWrite>>

VARIABLES
    chkUrl,      \* the url of the last check_website_status call
    chkProbes,   \* what its three probes did
    chkResult,   \* what it returned
    dnsAttempts, \* what the resolver attempts of the last check_dns_resolution call did
    dnsResult,   \* what it returned
    awsRegion,   \* os.environ['AWS_REGION']
    evCur,       \* the last evaluation of the verdict and the summary: input, output, setting
    evPrev,      \* the evaluation before it
    csPc,        \* the line check_website_status is at: the probe in flight, or idle, done
    csUrl,       \* its url argument
    csProbe,     \* each probe: not started, in flight, returned
    csRuns,      \* how often each probe was called
    csOuts,      \* what each probe that returned did
    csResult     \* what the call returned

stepVars == <<csPc, csUrl, csProbe, csRuns, csOuts, csResult>>

VARIABLES
    obsSvc,      \* the observer function that was called last, on its own
    obsUrl,      \* its url argument
    obsNet,      \* what its requests did
    obsResult    \* what it returned

obsVars == <<obsSvc, obsUrl, obsNet, obsResult>>

probeVars == <<chkUrl, chkProbes, chkResult, dnsAttempts, dnsResult, awsRegion, evCur, evPrev,
               stepVars, obsVars>>

VARIABLES
    reqEntry,    \* the entry point of the last request: lambda_handler or multi_region_check
    reqPc,       \* where the request is
    reqUrl,      \* its url
    reqLocal,    \* what check_website_status returned in it
    reqExt,      \* what get_external_status_checks returned in it
    reqCalls,    \* the collaborators it called
    resp,        \* its response
    mrRegions,   \* OTHER_REGIONS.split(',') of a multi_region_check request
    mrIndex,     \* the entry of mrRegions that the peer loop handles next
    mrPeers,     \* what the loop met at each entry handled so far
    mrInvoked,   \* the entries of mrRegions that were invoked, in order
    mrOther,     \* other_results
    mrAllRes,    \* all_res
    mrPhases     \* the steps of the orchestration the request went through

reqVars == <<reqEntry, reqPc, reqUrl, reqLocal, reqExt, reqCalls, resp,
             mrRegions, mrIndex, mrPeers, mrInvoked, mrOther, mrAllRes, mrPhases>>

vars == <<aggVars, probeVars, reqVars>>

NotRead == [tag |-> "not read"]

NoRet == [tag |-> "no return"]

NoWrite == [tag |-> "no write"]

AggInit ==
    /\ now = 0
    /\ table = [u \in Urls |-> NoItem]
    /\ aggPc = [c \in Callers |-> "idle"]
    /\ aggUrl = [c \in Callers |-> U_https]
    /\ aggChecks = [c \in Callers |-> EmptyChecks]
    /\ aggPending = [c \in Callers |-> {}]
    /\ aggRet = [c \in Callers |-> NoRet]
    /\ aggSeen = [c \in Callers |-> NotRead]
    /\ aggObs = [c \in Callers |-> [o \in Observers |-> "not submitted"]]
    /\ aggWrite = [c \in Callers |-> NoWrite]

NoDns == [tag |-> "no dns"]

NoEval == [tag |-> "no evaluation"]

\* the three probes, in the order check_website_status calls them
Probes == <<"dns", "http", "port">>

ProbeNames == {Probes[i] : i \in 1..Len(Probes)}

\* probe outcomes before any probe has returned
NoOuts == [dns |-> [i \in 1..Len(dns_servers) |-> "ip"], http |-> "success", port |-> "open"]

ProbeInit ==
    /\ chkUrl = U_https
    /\ chkProbes = [dns |-> [i \in 1..Len(dns_servers) |-> "ip"], http |-> "success", port |-> "open"]
    /\ chkResult = NoCheck
    /\ dnsAttempts = [i \in 1..Len(dns_servers) |-> "ip"]
    /\ dnsResult = NoDns
    /\ awsRegion = "unknown"
    /\ evCur = NoEval
    /\ evPrev = NoEval
    /\ csPc = "idle"
    /\ csUrl = U_https
    /\ csProbe = [p \in ProbeNames |-> "not started"]
    /\ csRuns = [p \in ProbeNames |-> 0]
    /\ csOuts = NoOuts
    /\ csResult = NoCheck
    /\ obsSvc = "none"
    /\ obsUrl = U_https
    /\ obsNet = <<NetExc>>
    /\ obsResult = NoRet

ReqInit ==
    /\ reqEntry = "none"
    /\ reqPc = "idle"
    /\ reqUrl = U_empty
    /\ reqLocal = NoCheck
    /\ reqExt = NoRet
    /\ reqCalls = {}
    /\ resp = NoResp
    /\ mrRegions = <<"">>
    /\ mrIndex = 1
    /\ mrPeers = << >>
    /\ mrInvoked = << >>
    /\ mrOther = << >>
    /\ mrAllRes = << >>
    /\ mrPhases = << >>

Init == AggInit /\ ProbeInit /\ ReqInit

\* a caller enters get_external_status_checks(url)
AggCall(c, url) ==
    /\ aggPc[c] = "idle"
    /\ aggPc' = [aggPc EXCEPT ![c] = "read"]
    /\ aggUrl' = [aggUrl EXCEPT ![c] = url]
    /\ UNCHANGED <<now, table, aggChecks, aggPending, aggRet, aggSeen, aggObs, aggWrite>>
    /\ UNCHANGED <<probeVars, reqVars>>

\* cached = get_cached_external_result(url); return it when truthy, else submit the observers
AggReadCache(c, rd) ==
    /\ aggPc[c] = "read"
    /\ LET cached == get_cached_external_result(table, aggUrl[c], now, rd)
       IN  /\ aggSeen' = [aggSeen EXCEPT ![c] = [item |-> table[aggUrl[c]], at |-> now, rd |-> rd]]
           /\ IF Truthy(cached)
              THEN /\ aggRet' = [aggRet EXCEPT ![c] = cached]
                   /\ aggPc' = [aggPc EXCEPT ![c] = "done"]
                   /\ UNCHANGED <<aggChecks, aggPending, aggObs>>
              ELSE /\ aggChecks' = [aggChecks EXCEPT ![c] = EmptyChecks]
                   /\ aggPending' = [aggPending EXCEPT ![c] = Observers]
                   /\ aggObs' = [aggObs EXCEPT ![c] = [o \in Observers |-> "running"]]
                   /\ aggPc' = [aggPc EXCEPT ![c] = "collect"]
                   /\ UNCHANGED aggRet
    /\ UNCHANGED <<now, table, aggUrl, aggWrite>>
    /\ UNCHANGED <<probeVars, reqVars>>

\* how a finished future ended: with a dict, with None, or with an exception
FutureOutcome(r) ==
    IF r = Raised THEN "raised" ELSE IF r = None THEN "none" ELSE "result"

\* the future of svc finishes within the budget and as_completed yields it
AggComplete(c, svc, net) ==
    /\ aggPc[c] = "collect"
    /\ svc \in aggPending[c]
    /\ aggChecks' = [aggChecks EXCEPT ![c] = RecordOutcome(@, svc, RunObserver(svc, aggUrl[c], net))]
    /\ aggPending' = [aggPending EXCEPT ![c] = @ \ {svc}]
    /\ aggObs' = [aggObs EXCEPT ![c][svc] = FutureOutcome(RunObserver(svc, aggUrl[c], net))]
    /\ UNCHANGED <<now, table, aggPc, aggUrl, aggRet, aggSeen, aggWrite>>
    /\ UNCHANGED <<probeVars, reqVars>>

\* the 5 s budget of as_completed expires with futures outstanding: TimeoutError leaves
\* the loop and the with block, and the outer handler returns
AggTimeout(c) ==
    /\ aggPc[c] = "collect"
    /\ aggPending[c] # {}
    /\ aggRet' = [aggRet EXCEPT ![c] = OnAggregatorException]
    /\ aggObs' = [aggObs EXCEPT ![c] =
                     [o \in Observers |-> IF o \in aggPending[c] THEN "unfinished" ELSE @[o]]]
    /\ aggPc' = [aggPc EXCEPT ![c] = "done"]
    /\ UNCHANGED <<now, table, aggUrl, aggChecks, aggPending, aggSeen, aggWrite>>
    /\ UNCHANGED <<probeVars, reqVars>>

\* every future was yielded: cache the checks when there are any, and return them
AggFinish(c, wr) ==
    /\ aggPc[c] = "collect"
    /\ aggPending[c] = {}
    /\ table' = IF Truthy(aggChecks[c])
                THEN cache_external_result(table, aggUrl[c], aggChecks[c], now, wr)
                ELSE table
    /\ aggWrite' = IF Truthy(aggChecks[c])
                   THEN [aggWrite EXCEPT ![c] = [data |-> aggChecks[c], at |-> now, wr |-> wr]]
                   ELSE aggWrite
    /\ aggRet' = [aggRet EXCEPT ![c] = ReturnAfterStore(aggChecks[c], wr)]
    /\ aggPc' = [aggPc EXCEPT ![c] = "done"]
    /\ UNCHANGED <<now, aggUrl, aggChecks, aggPending, aggSeen, aggObs>>
    /\ UNCHANGED <<probeVars, reqVars>>

\* the caller has its value and is free to call again
AggReturn(c) ==
    /\ aggPc[c] = "done"
    /\ aggPc' = [aggPc EXCEPT ![c] = "idle"]
    /\ aggUrl' = [aggUrl EXCEPT ![c] = U_https]
    /\ aggChecks' = [aggChecks EXCEPT ![c] = EmptyChecks]
    /\ aggPending' = [aggPending EXCEPT ![c] = {}]
    /\ aggRet' = [aggRet EXCEPT ![c] = NoRet]
    /\ aggSeen' = [aggSeen EXCEPT ![c] = NotRead]
    /\ aggObs' = [aggObs EXCEPT ![c] = [o \in Observers |-> "not submitted"]]
    /\ aggWrite' = [aggWrite EXCEPT ![c] = NoWrite]
    /\ UNCHANGED <<now, table>>
    /\ UNCHANGED <<probeVars, reqVars>>

\* a minute passes
Tick ==
    /\ now < MaxTime
    /\ now' = now + 1
    /\ UNCHANGED <<table, aggPc, aggUrl, aggChecks, aggPending, aggRet, aggSeen, aggObs, aggWrite>>
    /\ UNCHANGED <<probeVars, reqVars>>

AggNext ==
    \/ \E c \in SeqCallers, url \in AggUrls : AggCall(c, url)
    \/ \E c \in SeqCallers, rd \in StoreOutcomes : AggReadCache(c, rd)
    \/ \E c \in SeqCallers, svc \in Observers : \E net \in AggNets[svc] : AggComplete(c, svc, net)
    \/ \E c \in SeqCallers : AggTimeout(c)
    \/ \E c \in SeqCallers, wr \in StoreOutcomes : AggFinish(c, wr)
    \/ \E c \in SeqCallers : AggReturn(c)
    \/ Tick

SpecAgg == Init /\ [][AggNext]_vars

(***************************************************************************)
(* The probes and the verdict, applied to every input                      *)
(***************************************************************************)

\* check_website_status(url) with the probes doing po
CheckWebsiteStatus(url, po) ==
    /\ chkUrl' = url
    /\ chkProbes' = po
    /\ chkResult' = check_website_status(url, po)
    /\ dnsAttempts' = po.dns
    /\ dnsResult' = IF check_website_status(url, po) = Raised THEN NoDns
                    ELSE check_dns_resolution(po.dns)
    /\ UNCHANGED <<awsRegion, evCur, evPrev, stepVars, obsVars>>
    /\ UNCHANGED <<aggVars, reqVars>>

\* check_dns_resolution(domain) alone, with the resolver attempts doing outs;
\* the record of the previous full check is cleared
CheckDnsResolution(outs) ==
    /\ dnsAttempts' = outs
    /\ dnsResult' = check_dns_resolution(outs)
    /\ chkResult' = NoCheck
    /\ chkUrl' = U_https
    /\ chkProbes' = [dns |-> outs, http |-> "success", port |-> "open"]
    /\ UNCHANGED <<awsRegion, evCur, evPrev, stepVars, obsVars>>
    /\ UNCHANGED <<aggVars, reqVars>>

ProbeNext ==
    \/ \E url \in Urls, po \in ProbeOutcomes : CheckWebsiteStatus(url, po)
    \/ \E outs \in DnsOutcomes : CheckDnsResolution(outs)

SpecProbe == Init /\ [][ProbeNext]_vars

\* the last check returned a result dict
Checked == chkResult # NoCheck /\ chkResult # Raised

\* C1: the verdict is 'up' if the HTTP status is success, whatever DNS and port say;
\* otherwise 'partial' if DNS succeeded and the port is open; otherwise 'dns_only' if DNS
\* succeeded; otherwise 'down'
C1_VerdictPrecedence ==
    Checked =>
        LET dns == chkResult.detailed_checks.dns.overall_status
            http == chkResult.detailed_checks.http.status
            port == chkResult.detailed_checks.port.status
        IN  /\ http = chkProbes.http /\ port = chkProbes.port
            /\ http = "success" => chkResult.status = "up"
            /\ (http # "success" /\ dns = "success" /\ port = "open") => chkResult.status = "partial"
            /\ (http # "success" /\ dns = "success" /\ port # "open") => chkResult.status = "dns_only"
            /\ (http # "success" /\ dns # "success") => chkResult.status = "down"

\* HTTP succeeded although every resolver failed and the port is closed
C1_Witness ==
    /\ Checked
    /\ chkProbes.http = "success"
    /\ chkResult.detailed_checks.dns.overall_status = "failed"
    /\ chkProbes.port = "closed"
    /\ chkResult.status = "up"

\* C8: check_dns_resolution always returns a result with exactly one entry per resolver,
\* in list order; success_count is the number of entries with status 'success', it is at
\* most total_servers, and overall_status is 'success' if and only if success_count > 0
C8_DnsResult ==
    dnsResult # NoDns =>
        /\ Len(dnsResult.results) = Len(dns_servers)
        /\ \A i \in 1..Len(dns_servers) :
               /\ dnsResult.results[i].dns_server = dns_servers[i]
               /\ dnsResult.results[i].status = "success" <=> dnsAttempts[i] = "ip"
               /\ dnsResult.results[i].status \in {"success", "failed"}
        /\ dnsResult.success_count =
               Cardinality({i \in 1..Len(dnsResult.results) : dnsResult.results[i].status = "success"})
        /\ dnsResult.total_servers = Len(dns_servers)
        /\ dnsResult.success_count <= dnsResult.total_servers
        /\ dnsResult.overall_status \in {"success", "failed"}
        /\ dnsResult.overall_status = "success" <=> dnsResult.success_count > 0

\* every resolver attempt failed, and there is a result with three failed entries
C8_Witness ==
    /\ dnsResult # NoDns
    /\ \A i \in 1..Len(dns_servers) : dnsAttempts[i] = "exc"
    /\ Len(dnsResult.results) = Len(dns_servers)
    /\ dnsResult.success_count = 0
    /\ dnsResult.overall_status = "failed"

\* one resolver attempt of three succeeded
C8_WitnessOne ==
    /\ dnsResult # NoDns
    /\ dnsResult.success_count = 1
    /\ dnsResult.overall_status = "success"

(***************************************************************************)
(* Properties of the aggregator and its cache                              *)
(***************************************************************************)

\* the call of c has read the cache
HasRead(c) == aggPc[c] \in {"collect", "done"}

\* the call of c submitted the observers
FannedOut(c) == \A o \in Observers : aggObs[c][o] # "not submitted"

\* the call of c submitted no observer
NoObserverInvoked(c) == \A o \in Observers : aggObs[c][o] = "not submitted"

\* the age, at the time c read the cache, of the item the table then held
SeenAge(c) == aggSeen[c].at - fromisoformat(aggSeen[c].item.timestamp)

\* C2, as stated: a call that reads the cache while the item written for its url is
\* younger than 5 minutes returns exactly that payload and invokes no observer; a call
\* that reads it at an age of 5 minutes or more fans out afresh
C2_AnyReadOfFreshEntryHits ==
    \A c \in Callers :
        (HasRead(c) /\ aggSeen[c].item # NoItem) =>
            /\ SeenAge(c) < FreshnessMinutes =>
                   (aggPc[c] = "done" /\ aggRet[c] = FromStored(aggSeen[c].item.data)
                      /\ NoObserverInvoked(c))
            /\ SeenAge(c) >= FreshnessMinutes => FannedOut(c)

\* C2, amended: the same, for a call whose table read succeeds; a read that fails is a miss
C2_CacheFreshness ==
    \A c \in Callers :
        (HasRead(c) /\ aggSeen[c].item # NoItem) =>
            /\ (SeenAge(c) < FreshnessMinutes /\ aggSeen[c].rd = "ok") =>
                   (aggPc[c] = "done" /\ aggRet[c] = FromStored(aggSeen[c].item.data)
                      /\ NoObserverInvoked(c))
            /\ (SeenAge(c) >= FreshnessMinutes \/ aggSeen[c].rd # "ok") => FannedOut(c)

\* a call returned a cached payload that was written some minutes before
C2_Witness ==
    \E c \in Callers :
        /\ aggPc[c] = "done"
        /\ aggSeen[c].item # NoItem
        /\ aggSeen[c].rd = "ok"
        /\ SeenAge(c) = FreshnessMinutes - 1
        /\ aggRet[c] = FromStored(aggSeen[c].item.data)
        /\ NoObserverInvoked(c)

\* a call found an item of exactly 5 minutes and went to the observers
C2_WitnessStale ==
    \E c \in Callers :
        /\ aggPc[c] = "collect"
        /\ aggSeen[c].item # NoItem
        /\ aggSeen[c].rd = "ok"
        /\ SeenAge(c) = FreshnessMinutes

\* the observer o of c's fan-out failed or did not finish
ObserverLost(c, o) == aggObs[c][o] \in {"none", "raised", "unfinished"}

\* the returned mapping marks o as an error
HasErrorEntry(ret, o) == ret[o] # Absent /\ "error" \in DOMAIN ret[o]

\* the observer o of c's fan-out returned a dict that reports no error
ObserverSucceeded(c, o) ==
    aggObs[c][o] = "result" /\ aggChecks[c][o] # Absent /\ "error" \notin DOMAIN aggChecks[c][o]

\* C3, as stated: a fan-out in which some observers fail or time out and at least one
\* succeeds returns a mapping with an entry for every observer: the successful ones'
\* entries and an error entry for each failed or timed-out one
C3_PartialFailureKeepsEveryObserver ==
    \A c \in Callers :
        (/\ aggPc[c] = "done"
         /\ FannedOut(c)
         /\ \E o \in Observers : ObserverSucceeded(c, o)
         /\ \E o \in Observers : ObserverLost(c, o)) =>
            /\ aggRet[c] \notin {Raised, None, NoRet}
            /\ Keys(aggRet[c]) = Observers
            /\ \A o \in Observers : ObserverSucceeded(c, o) => aggRet[c][o] = aggChecks[c][o]
            /\ \A o \in Observers : ObserverLost(c, o) => HasErrorEntry(aggRet[c], o)

RegionUrls == {U_https, U_bare, U_ftp, U_nohost, U_badport, U_ipv6, U_empty}

HandlerUrls == {U_https, U_bare, U_ftp, U_text, U_nohost, U_badport, U_ipv6, U_empty}

RegionProbes ==
    {po \in ProbeOutcomes :
        /\ po.dns \in {[i \in 1..Len(dns_servers) |-> "ip"], [i \in 1..Len(dns_servers) |-> "exc"]}
        /\ po.http \in {"success", "error"}
        /\ po.port \in {"open", "closed"}}

\* a multi_region_check request arrives; without a url it is answered at once
MrReceive(url, regions) ==
    /\ reqPc \in {"idle", "done"}
    /\ reqEntry' = "multi_region_check"
    /\ reqUrl' = url
    /\ mrRegions' = regions
    /\ reqLocal' = NoCheck
    /\ reqExt' = NoRet
    /\ reqCalls' = {}
    /\ mrIndex' = 1
    /\ mrPeers' = << >>
    /\ mrInvoked' = << >>
    /\ mrOther' = << >>
    /\ mrAllRes' = << >>
    /\ IF url = U_empty
       THEN /\ resp' = cors_response(400, [error |-> "URL is required"])
            /\ mrPhases' = <<"START", "REJECTED">>
            /\ reqPc' = "done"
       ELSE /\ resp' = NoResp
            /\ mrPhases' = <<"START">>
            /\ reqPc' = "LOCAL_CHECK"
    /\ UNCHANGED <<aggVars, probeVars>>

\* local = check_website_status(url); an exception goes to the outer handler
MrLocalCheck(po) ==
    /\ reqEntry = "multi_region_check"
    /\ reqPc = "LOCAL_CHECK"
    /\ LET local == check_website_status(reqUrl, po)
       IN  IF local = Raised
           THEN /\ resp' = cors_response(500, [error |-> "Internal server error"])
                /\ mrPhases' = mrPhases \o <<"LOCAL_CHECK", "ERROR">>
                /\ reqPc' = "done"
                /\ UNCHANGED <<reqLocal, reqCalls>>
           ELSE /\ reqLocal' = local
                /\ reqCalls' = {"dns", "http", "port"}
                /\ mrPhases' = mrPhases \o <<"LOCAL_CHECK">>
                /\ reqPc' = "FANOUT"
                /\ UNCHANGED resp
    /\ UNCHANGED <<reqEntry, reqUrl, reqExt, mrRegions, mrIndex, mrPeers, mrInvoked, mrOther, mrAllRes>>
    /\ UNCHANGED <<aggVars, probeVars>>

\* one turn of the peer loop on an entry that is invoked; out is what the invocation does
MrInvokePeer(out) ==
    /\ reqEntry = "multi_region_check"
    /\ reqPc = "FANOUT"
    /\ mrIndex <= Len(mrRegions)
    /\ Invoked(mrRegions, mrIndex)
    /\ mrOther' = CollectPeer(mrOther, out)
    /\ mrPeers' = Append(mrPeers, out)
    /\ mrInvoked' = Append(mrInvoked, mrIndex)
    /\ reqCalls' = reqCalls \cup {"peer"}
    /\ mrIndex' = mrIndex + 1
    /\ UNCHANGED <<reqEntry, reqPc, reqUrl, reqLocal, reqExt, resp, mrRegions, mrAllRes, mrPhases>>
    /\ UNCHANGED <<aggVars, probeVars>>

\* one turn of the peer loop on an entry that is not invoked
MrSkipEntry ==
    /\ reqEntry = "multi_region_check"
    /\ reqPc = "FANOUT"
    /\ mrIndex <= Len(mrRegions)
    /\ ~Invoked(mrRegions, mrIndex)
    /\ mrPeers' = Append(mrPeers, PeerNotInvoked)
    /\ mrIndex' = mrIndex + 1
    /\ UNCHANGED <<reqEntry, reqPc, reqUrl, reqLocal, reqExt, reqCalls, resp,
                   mrRegions, mrInvoked, mrOther, mrAllRes, mrPhases>>
    /\ UNCHANGED <<aggVars, probeVars>>

\* after the loop: all_res, the counts, the consensus and the response; x.get on a
\* None entry of all_res raises and the outer handler answers
MrConsensus ==
    /\ reqEntry = "multi_region_check"
    /\ reqPc = "FANOUT"
    /\ mrIndex > Len(mrRegions)
    /\ LET all_res == <<reqLocal>> \o mrOther
           up == RegionsUp(all_res)
           total == Len(all_res)
       IN  /\ mrAllRes' = all_res
           /\ IF \E i \in 1..Len(all_res) : all_res[i] = JsonNull
              THEN /\ resp' = cors_response(500, [error |-> "Internal server error"])
                   /\ mrPhases' = mrPhases \o <<"FANOUT", "COLLECT", "CONSENSUS", "ERROR">>
              ELSE /\ resp' = cors_response(200,
                                  [url |-> reqUrl,
                                   overall_status |-> Consensus(up, total),
                                   regions_up |-> up,
                                   total_regions |-> total,
                                   results |-> all_res,
                                   analysis |-> analyze_multi_region_results(all_res)])
                   /\ mrPhases' = mrPhases \o <<"FANOUT", "COLLECT", "CONSENSUS", "DONE">>
    /\ reqPc' = "done"
    /\ UNCHANGED <<reqEntry, reqUrl, reqLocal, reqExt, reqCalls,
                   mrRegions, mrIndex, mrPeers, mrInvoked, mrOther>>
    /\ UNCHANGED <<aggVars, probeVars>>

RegionNext ==
    \/ \E url \in RegionUrls, regions \in RegionLists : MrReceive(url, regions)
    \/ \E po \in RegionProbes : MrLocalCheck(po)
    \/ \E out \in PeerOutcomes : MrInvokePeer(out)
    \/ MrSkipEntry
    \/ MrConsensus

SpecRegion == Init /\ [][RegionNext]_vars

(***************************************************************************)
(* Properties of the multi-region orchestrator                             *)
(***************************************************************************)

\* a multi_region_check request was answered
MrAnswered == reqEntry = "multi_region_check" /\ reqPc = "done"

\* it was answered with the consensus response
MrSucceeded == MrAnswered /\ resp.statusCode = 200

\* the body of the response
Body == json_loads(resp.body)

\* the entries of OTHER_REGIONS that name a region
ConfiguredPeers == {i \in 1..Len(mrRegions) : mrRegions[i] # ""}

\* the invocation at entry i returned statusCode 200
PeerReturned200(i) == mrPeers[i].kind = "response" /\ mrPeers[i].statusCode = 200

\* the invocation at entry i returned statusCode 200 and a body that json.loads accepts
PeerAccepted(i) == PeerReturned200(i) /\ IsJson(mrPeers[i].body)

\* the number of entries of results that are reachable
ReachableResults(results) ==
    Cardinality({j \in 1..Len(results) : GetStatus(results[j]) \in {"up", "partial"}})

\* C4, as stated: in a successful response total_regions is the local result plus one
\* per peer whose invocation returned statusCode 200, regions_up is the number of results
\* with status 'up' or 'partial', total_regions is between 1 and 1 + the configured peers
\* and regions_up is between 0 and total_regions
C4_TotalCountsEvery200Peer ==
    MrSucceeded =>
        /\ Body.total_regions = Len(Body.results)
        /\ Body.total_regions = 1 + Cardinality({i \in 1..Len(mrPeers) : PeerReturned200(i)})
        /\ Body.regions_up = ReachableResults(Body.results)
        /\ 1 <= Body.total_regions /\ Body.total_regions <= 1 + Cardinality(ConfiguredPeers)
        /\ 0 <= Body.regions_up /\ Body.regions_up <= Body.total_regions

\* C4, amended: the peers counted are those whose invocation returned statusCode 200 with
\* a body that parses as JSON; a 200 response with an unparsable body is left out
C4_RegionCounts ==
    MrSucceeded =>
        /\ Body.total_regions = Len(Body.results)
        /\ Body.total_regions = 1 + Cardinality({i \in 1..Len(mrPeers) : PeerAccepted(i)})
        /\ Body.regions_up = ReachableResults(Body.results)
        /\ 1 <= Body.total_regions /\ Body.total_regions <= 1 + Cardinality(ConfiguredPeers)
        /\ 0 <= Body.regions_up /\ Body.regions_up <= Body.total_regions

\* two peers were invoked, one failed and one returned 'partial', and the local region
\* is up: two regions of two are counted
C4_Witness ==
    /\ MrSucceeded
    /\ Len(mrInvoked) = 2
    /\ \E i \in 1..Len(mrPeers) : mrPeers[i] = PeerInvokeError
    /\ \E i \in 1..Len(mrPeers) : mrPeers[i] = PeerResponse(200, json_dumps(PeerResult("partial")))
    /\ reqLocal.status = "up"
    /\ Body.total_regions = 2
    /\ Body.regions_up = 2

\* every attempted region is reachable: the local one, and every invoked peer returned a
\* result whose status is 'up' or 'partial'
AllAttemptedReachable ==
    /\ reqLocal.status \in {"up", "partial"}
    /\ \A i \in 1..Len(mrPeers) :
           mrPeers[i] # PeerNotInvoked =>
               (PeerAccepted(i) /\ GetStatus(json_loads(mrPeers[i].body)) \in {"up", "partial"})

\* no region is reachable
NoRegionReachable == ReachableResults(mrAllRes) = 0

\* C5, as stated: overall_status is 'up' only if every attempted region, failed peers
\* included, is reachable; it is 'down' if and only if no region is reachable; it is
\* 'mixed' in every other case
C5_UpOnlyIfAllAttemptedReachable ==
    MrSucceeded =>
        /\ Body.overall_status = "up" => AllAttemptedReachable
        /\ Body.overall_status = "down" <=> NoRegionReachable
        /\ (~AllAttemptedReachable /\ ~NoRegionReachable) => Body.overall_status = "mixed"

\* C9, as stated: every request that carries a url goes through LOCAL_CHECK, FANOUT,
\* COLLECT and CONSENSUS in that order and ends in DONE with a consensus result, whatever
\* the local probes and the peers do
C9_AlwaysEndsInDone ==
    (MrAnswered /\ reqUrl # U_empty) =>
        /\ resp.statusCode = 200
        /\ mrPhases = <<"START", "LOCAL_CHECK", "FANOUT", "COLLECT", "CONSENSUS", "DONE">>
        /\ Body.overall_status \in {"up", "mixed", "down"}

\* the bodies of the accepted peers among the first n entries, in order
RECURSIVE AcceptedBodies(_)
AcceptedBodies(n) ==
    IF n = 0 THEN << >>
    ELSE AcceptedBodies(n - 1) \o (IF PeerAccepted(n) THEN <<json_loads(mrPeers[n].body)>> ELSE << >>)

HandlerCaller == "c1"

\* the network outcomes the observers are explored with under lambda_handler
HandlerNets ==
    [downforeveryoneorjustme |-> {<<Resp(200, TextNeither)>>, <<NetExc>>},
     isitdownrightnow |-> {<<Resp(200, << >>)>>},
     websiteplanet |-> {<<Resp(200, << >>), Resp(200, << >>)>>, <<NetExc, NetExc>>}]

\* the body of the answer to a CORS preflight: the empty dict
EmptyDict == [tag |-> "empty dict"]

\* result['external_checks'] = ext
WithExternal(result, ext) ==
    [url |-> result.url, domain |-> result.domain, status |-> result.status,
     detailed_checks |-> result.detailed_checks, summary |-> result.summary,
     external_checks |-> ext]

\* the request variables and the caller's aggregator variables at the start of a request
LhReset(entry, url) ==
    /\ reqEntry' = entry
    /\ reqUrl' = url
    /\ reqLocal' = NoCheck
    /\ reqExt' = NoRet
    /\ reqCalls' = {}
    /\ aggPc' = [aggPc EXCEPT ![HandlerCaller] = "idle"]
    /\ aggUrl' = [aggUrl EXCEPT ![HandlerCaller] = U_https]
    /\ aggChecks' = [aggChecks EXCEPT ![HandlerCaller] = EmptyChecks]
    /\ aggPending' = [aggPending EXCEPT ![HandlerCaller] = {}]
    /\ aggRet' = [aggRet EXCEPT ![HandlerCaller] = NoRet]
    /\ aggSeen' = [aggSeen EXCEPT ![HandlerCaller] = NotRead]
    /\ aggObs' = [aggObs EXCEPT ![HandlerCaller] = [o \in Observers |-> "not submitted"]]
    /\ aggWrite' = [aggWrite EXCEPT ![HandlerCaller] = NoWrite]
    /\ UNCHANGED <<now, table, probeVars,
                   mrRegions, mrIndex, mrPeers, mrInvoked, mrOther, mrAllRes, mrPhases>>

\* a CORS preflight request is answered before the body is looked at
LhOptions ==
    /\ reqPc \in {"idle", "done"}
    /\ LhReset("preflight", U_empty)
    /\ resp' = cors_response(200, EmptyDict)
    /\ reqPc' = "done"

\* a lambda_handler request arrives: the url is required and must pass is_valid_url
LhReceive(url) ==
    /\ reqPc \in {"idle", "done"}
    /\ LhReset("lambda_handler", url)
    /\ IF url = U_empty
       THEN /\ resp' = cors_response(400, [error |-> "URL is required"])
            /\ reqPc' = "done"
       ELSE IF ~is_valid_url(url)
       THEN /\ resp' = cors_response(400, [error |-> "Invalid URL format"])
            /\ reqPc' = "done"
       ELSE /\ resp' = NoResp
            /\ reqPc' = "local"

\* result = check_website_status(url), then the call of get_external_status_checks(url);
\* an exception of the check goes to the outer handler
LhLocalCheck(po) ==
    /\ reqEntry = "lambda_handler"
    /\ reqPc = "local"
    /\ LET result == check_website_status(reqUrl, po)
       IN  IF result = Raised
           THEN /\ resp' = cors_response(500, [error |-> "Internal server error"])
                /\ reqPc' = "done"
                /\ UNCHANGED <<reqLocal, reqCalls, aggPc, aggUrl>>
           ELSE /\ reqLocal' = result
                /\ reqCalls' = {"dns", "http", "port"}
                /\ reqPc' = "external"
                /\ aggPc' = [aggPc EXCEPT ![HandlerCaller] = "read"]
                /\ aggUrl' = [aggUrl EXCEPT ![HandlerCaller] = reqUrl]
                /\ UNCHANGED resp
    /\ UNCHANGED <<reqEntry, reqUrl, reqExt>>
    /\ UNCHANGED <<now, table, aggChecks, aggPending, aggRet, aggSeen, aggObs, aggWrite>>
    /\ UNCHANGED <<probeVars, mrRegions, mrIndex, mrPeers, mrInvoked, mrOther, mrAllRes, mrPhases>>

\* ext came back: it is added to the result when truthy, and the result is the response;
\* json.dumps of a result that holds a Decimal raises, and the outer handler answers
LhRespond ==
    /\ reqEntry = "lambda_handler"
    /\ reqPc = "external"
    /\ aggPc[HandlerCaller] = "done"
    /\ LET ext == aggRet[HandlerCaller]
       IN  /\ reqExt' = ext
           /\ resp' = IF ext = Raised
                      THEN cors_response(500, [error |-> "Internal server error"])
                      ELSE IF Truthy(ext) /\ HasDecimal(ext)
                      THEN cors_response(500, [error |-> "Internal server error"])
                      ELSE IF Truthy(ext) THEN cors_response(200, WithExternal(reqLocal, ext))
                      ELSE cors_response(200, reqLocal)
    /\ reqPc' = "done"
    /\ UNCHANGED <<reqEntry, reqUrl, reqLocal, reqCalls>>
    /\ UNCHANGED <<aggVars, probeVars>>
    /\ UNCHANGED <<mrRegions, mrIndex, mrPeers, mrInvoked, mrOther, mrAllRes, mrPhases>>

HandlerNext ==
    \/ LhOptions
    \/ \E url \in HandlerUrls : LhReceive(url)
    \/ \E po \in RegionProbes : LhLocalCheck(po)
    \/ \E rd \in StoreOutcomes : AggReadCache(HandlerCaller, rd)
    \/ \E svc \in Observers : \E net \in HandlerNets[svc] : AggComplete(HandlerCaller, svc, net)
    \/ AggTimeout(HandlerCaller)
    \/ \E wr \in StoreOutcomes : AggFinish(HandlerCaller, wr)
    \/ LhRespond

SpecHandler == Init /\ [][HandlerNext]_vars

(***************************************************************************)
(* Properties of the entry points                                          *)
(***************************************************************************)

\* the scheme the url is given with, "" when it has none
GivenScheme(url) ==
    IF url = << >> THEN ""
    ELSE IF url[1] = "http://" THEN "http"
    ELSE IF url[1] = "https://" THEN "https"
    ELSE IF url[1] = "ftp:" THEN "ftp"
    ELSE ""

\* the host of the url, after its scheme
GivenHost(url) ==
    IF GivenScheme(url) \in {"http", "https"} THEN NetlocOf(Tail(url))
    ELSE IF GivenScheme(url) = "ftp" THEN NetlocOf(SubSeq(url, 3, Len(url)))
    ELSE NetlocOf(url)

\* the rule of the validation: after defaulting to https when no scheme is given, the
\* scheme is http or https and the host is not empty
AcceptableUrl(url) ==
    /\ (IF GivenScheme(url) = "" THEN "https" ELSE GivenScheme(url)) \in {"http", "https"}
    /\ GivenHost(url) # << >>

\* the collaborators the request has called so far
CallsMade ==
    reqCalls
        \cup (IF reqEntry = "lambda_handler" /\ aggSeen[HandlerCaller] # NotRead
              THEN {"cache"} ELSE {})
        \cup (IF reqEntry = "lambda_handler" /\ FannedOut(HandlerCaller)
              THEN {"observer"} ELSE {})

\* C6, as stated: at both entry points a url that does not pass the rule (the empty
\* string, "ftp://x.com", "https://") is answered with a validation error, and no DNS,
\* HTTP, port, observer, cache or peer call is made for the request
C6_InvalidUrlRejectedBeforeProbing ==
    (reqEntry \in {"lambda_handler", "multi_region_check"} /\ ~AcceptableUrl(reqUrl)) =>
        /\ CallsMade = {}
        /\ reqPc = "done" => resp.statusCode = 400

(***************************************************************************)
(* The verdict resolver, evaluated again and again in a changing setting   *)
(***************************************************************************)

\* the regions the function can be deployed in
Regions == {"unknown", "us-east-1", "eu-west-1"}

\* the resolver attempts the verdict is evaluated with: all succeed, one does, none does
VerdictDns ==
    {outs \in DnsOutcomes : outs[2] = outs[3] /\ (outs[1] = "exc" => outs[2] = "exc")}

\* the checks dicts the verdict is evaluated on
VerdictInputs ==
    {[dns |-> check_dns_resolution(outs),
      http |-> check_http_response(h),
      port |-> check_port_connectivity(443, p)] :
        outs \in VerdictDns, h \in HttpOutcomes, p \in PortOutcomes}

\* a mapping some earlier aggregation could have cached
SomeChecks == [EmptyChecks EXCEPT !["isitdownrightnow"] = [status |-> "down", error |-> "Connection failed"]]

ResolveVerdict_bug_sticky(checks) ==
    IF evPrev # NoEval /\ evPrev.out.status = "up"
    THEN evPrev.out
    ELSE [status |-> determine_overall_status(checks),
          summary |-> generate_status_summary(checks)]

\* overall and summary as check_website_status computes them from the three results
ResolveVerdict(checks) ==
    [status |-> determine_overall_status(checks),
     summary |-> generate_status_summary(checks)]

\* one evaluation of the verdict and the summary on checks
Evaluate(checks) ==
    /\ evPrev' = evCur
    /\ evCur' = [checks |-> checks,
                 out |-> ResolveVerdict(checks),
                 region |-> awsRegion,
                 cached |-> table[U_https] # NoItem]
    /\ UNCHANGED <<chkUrl, chkProbes, chkResult, dnsAttempts, dnsResult, awsRegion, stepVars, obsVars>>
    /\ UNCHANGED <<aggVars, reqVars>>

\* the function runs in another region
SetRegion(r) ==
    /\ r # awsRegion
    /\ awsRegion' = r
    /\ UNCHANGED <<chkUrl, chkProbes, chkResult, dnsAttempts, dnsResult, evCur, evPrev, stepVars, obsVars>>
    /\ UNCHANGED <<aggVars, reqVars>>

\* cache_external_result(url, data) is called between two evaluations
StoreBetween(url, data) ==
    /\ table[url] = NoItem
    /\ table' = cache_external_result(table, url, data, now, "ok")
    /\ UNCHANGED <<now, aggPc, aggUrl, aggChecks, aggPending, aggRet, aggSeen, aggObs, aggWrite>>
    /\ UNCHANGED <<probeVars, reqVars>>

VerdictNext ==
    \/ \E checks \in VerdictInputs : Evaluate(checks)
    \/ \E r \in Regions : SetRegion(r)
    \/ StoreBetween(U_https, SomeChecks)

SpecVerdict == Init /\ [][VerdictNext]_vars

DeadlineHit(c) ==
    aggPc[c] = "done" /\ FannedOut(c) /\ \E o \in Observers : aggObs[c][o] = "unfinished"

\* C12, as stated: when the budget expires with observer calls outstanding and some
\* observer has given a result, the call returns the outcomes of the observers that
\* completed within the budget, and the unfinished observers are absent from the mapping
C12_DeadlineKeepsCollected ==
    \A c \in Callers :
        (DeadlineHit(c) /\ \E o \in Observers : ObserverSucceeded(c, o)) =>
            /\ aggRet[c] \notin {None, Raised, NoRet}
            /\ \A o \in Observers :
                   /\ aggObs[c][o] = "unfinished" => aggRet[c][o] = Absent
                   /\ aggObs[c][o] # "unfinished" => aggRet[c][o] = aggChecks[c][o]

(***************************************************************************)
(* The cache write of the aggregator                                       *)
(***************************************************************************)

\* the call of c called cache_external_result
Wrote(c) == aggWrite[c] # NoWrite

\* the item that the write of c puts into the table
WrittenItem(c) ==
    [data |-> aggWrite[c].data,
     timestamp |-> isoformat(aggWrite[c].at),
     ttl |-> aggWrite[c].at + TtlMinutes]

\* C13, as stated: a finished call has written to the cache if and only if its read was a
\* miss and at least one observer outcome was recorded; what it wrote is the mapping it
\* returns; a call answered from the cache made no observer call and no write, and the
\* stored entry is the one it read
C13_WriteIffMissWithOutcome ==
    \A c \in Callers :
        aggPc[c] = "done" =>
            /\ Wrote(c) <=> (FannedOut(c) /\ Keys(aggChecks[c]) # {})
            /\ Wrote(c) => aggWrite[c].data = aggRet[c]
            /\ NoObserverInvoked(c) => (~Wrote(c) /\ table[aggUrl[c]] = aggSeen[c].item)

\* C14: a failing table read is a miss and the call goes on to the observers; a failing
\* table write is swallowed and the call returns the mapping it collected, as it does
\* when the write succeeds; the call never raises
C14_StoreFailuresNotFatal ==
    \A c \in Callers :
        /\ aggRet[c] # Raised
        /\ (HasRead(c) /\ aggSeen[c].rd # "ok") => FannedOut(c)
        /\ (aggPc[c] = "done" /\ Wrote(c)) =>
               (aggRet[c] = aggChecks[c] /\ aggRet[c] = aggWrite[c].data)
        /\ (aggPc[c] = "done" /\ Wrote(c) /\ aggWrite[c].wr # "ok") =>
               table[aggUrl[c]] = aggSeen[c].item

\* the read raised ClientError, the write raised another exception, and the call returned
\* the three entries it collected
C14_Witness ==
    \E c \in Callers :
        /\ aggPc[c] = "done"
        /\ aggSeen[c].rd = "ClientError"
        /\ Wrote(c)
        /\ aggWrite[c].wr = "Exception"
        /\ Keys(aggRet[c]) = Observers
        /\ aggRet[c] = aggChecks[c]

(***************************************************************************)
(* check_website_status, line by line                                      *)
(***************************************************************************)

\* the variables of the other ways the probes are run
otherProbeVars ==
    <<chkUrl, chkProbes, chkResult, dnsAttempts, dnsResult, awsRegion, evCur, evPrev, obsVars>>

\* check_website_status(url) is called: the url is parsed, and check_dns_resolution is
\* called unless urlparse or .port raised
CsCall(url) ==
    /\ csPc \in {"idle", "done"}
    /\ csUrl' = url
    /\ csOuts' = NoOuts
    /\ LET parsed == urlparse(ensure_protocol(url))
           raises == IF parsed = Raised THEN TRUE ELSE port_of(parsed) = Raised
       IN  IF raises
           THEN /\ csPc' = "done"
                /\ csProbe' = [p \in ProbeNames |-> "not started"]
                /\ csRuns' = [p \in ProbeNames |-> 0]
                /\ csResult' = Raised
           ELSE /\ csPc' = "dns"
                /\ csProbe' = [p \in ProbeNames |-> IF p = "dns" THEN "in flight" ELSE "not started"]
                /\ csRuns' = [p \in ProbeNames |-> IF p = "dns" THEN 1 ELSE 0]
                /\ csResult' = NoCheck
    /\ UNCHANGED <<otherProbeVars, aggVars, reqVars>>

\* check_dns_resolution returns, and check_http_response is called
CsDnsReturns(outs) ==
    /\ csPc = "dns"
    /\ csOuts' = [csOuts EXCEPT !.dns = outs]
    /\ csProbe' = [csProbe EXCEPT !["dns"] = "returned", !["http"] = "in flight"]
    /\ csRuns' = [csRuns EXCEPT !["http"] = @ + 1]
    /\ csPc' = "http"
    /\ UNCHANGED <<csUrl, csResult>>
    /\ UNCHANGED <<otherProbeVars, aggVars, reqVars>>

\* check_http_response returns, and check_port_connectivity is called
CsHttpReturns(out) ==
    /\ csPc = "http"
    /\ csOuts' = [csOuts EXCEPT !.http = out]
    /\ csProbe' = [csProbe EXCEPT !["http"] = "returned", !["port"] = "in flight"]
    /\ csRuns' = [csRuns EXCEPT !["port"] = @ + 1]
    /\ csPc' = "port"
    /\ UNCHANGED <<csUrl, csResult>>
    /\ UNCHANGED <<otherProbeVars, aggVars, reqVars>>

\* check_port_connectivity returns, and the result dict is built and returned
CsPortReturns(out) ==
    /\ csPc = "port"
    /\ csOuts' = [csOuts EXCEPT !.port = out]
    /\ csProbe' = [csProbe EXCEPT !["port"] = "returned"]
    /\ csResult' = check_website_status(csUrl, [csOuts EXCEPT !.port = out])
    /\ csPc' = "done"
    /\ UNCHANGED <<csUrl, csRuns>>
    /\ UNCHANGED <<otherProbeVars, aggVars, reqVars>>

CheckNext ==
    \/ \E url \in Urls : CsCall(url)
    \/ \E outs \in DnsOutcomes : CsDnsReturns(outs)
    \/ \E out \in HttpOutcomes : CsHttpReturns(out)
    \/ \E out \in PortOutcomes : CsPortReturns(out)

SpecCheck == Init /\ [][CheckNext]_vars

\* the verdicts and the typed results of the three probes
Verdicts == {"up", "partial", "dns_only", "down"}

FullyPopulated(result) ==
    /\ result.status \in Verdicts
    /\ result.detailed_checks.dns.overall_status \in {"success", "failed"}
    /\ Len(result.detailed_checks.dns.results) = Len(dns_servers)
    /\ result.detailed_checks.http.status \in HttpOutcomes
    /\ result.detailed_checks.port.status \in PortOutcomes
    /\ Len(result.summary) = Len(Probes)

\* C15, as stated: every invocation of check_website_status, whatever its probes do, runs
\* each of the three probes exactly once and returns one fully populated verdict whose
\* detailed checks are the three probes' typed results
C15_EveryInvocationYieldsVerdict ==
    csPc = "done" =>
        /\ csResult # Raised
        /\ \A p \in ProbeNames : csRuns[p] = 1 /\ csProbe[p] = "returned"
        /\ FullyPopulated(csResult)
        /\ csResult.detailed_checks.http.status = csOuts.http
        /\ csResult.detailed_checks.port.status = csOuts.port

\* C18, as stated: the three probes are issued concurrently: no probe that has not been
\* started waits while another probe is in flight
C18_NoProbeWaitsForAnother ==
    \A p, q \in ProbeNames : ~(csProbe[p] = "in flight" /\ csProbe[q] = "not started")

(***************************************************************************)
(* Two concurrent calls of the aggregator for one url                      *)
(***************************************************************************)

\* the url both callers ask about
RaceUrl == U_https

\* the network outcomes the observers are explored with in the race
RaceNets ==
    [downforeveryoneorjustme |-> {<<Resp(200, TextJustYou)>>, <<NetExc>>},
     isitdownrightnow |-> {<<Resp(200, << >>)>>},
     websiteplanet |-> {<<Resp(200, << >>), Resp(200, << >>)>>, <<NetExc, NetExc>>}]

\* what the table calls are explored with in the race
RaceStore == {"ok", "ClientError"}

\* the clock of the race stops at RaceMaxTime minutes
RaceMaxTime == 1

RaceTick == now < RaceMaxTime /\ Tick

RaceNext ==
    \/ \E c \in Callers : AggCall(c, RaceUrl)
    \/ \E c \in Callers, rd \in RaceStore : AggReadCache(c, rd)
    \/ \E c \in Callers, svc \in Observers : \E net \in RaceNets[svc] : AggComplete(c, svc, net)
    \/ \E c \in Callers : AggTimeout(c)
    \/ \E c \in Callers, wr \in RaceStore : AggFinish(c, wr)
    \/ RaceTick

SpecRace == Init /\ [][RaceNext]_vars

\* the read of c found no fresh entry
Missed(c) ==
    \/ aggSeen[c].rd # "ok"
    \/ aggSeen[c].item = NoItem
    \/ SeenAge(c) >= FreshnessMinutes

\* the stored entry is the complete mapping, with its timestamp, of one call's write
StoredByOneCall(url) ==
    table[url] # NoItem =>
        \E c \in Callers :
            /\ Wrote(c) /\ aggWrite[c].wr = "ok" /\ aggUrl[c] = url
            /\ aggWrite[c].data = aggChecks[c]
            /\ table[url] = WrittenItem(c)

\* in every state: a call that missed has its own fan-out, the stored entry is one
\* call's write, and a call that read a fresh entry returned it
RaceInv ==
    /\ \A c \in Callers : (HasRead(c) /\ Missed(c)) => FannedOut(c)
    /\ \A url \in Urls : StoredByOneCall(url)
    /\ \A c \in Callers :
           (HasRead(c) /\ ~Missed(c)) =>
               (aggPc[c] = "done" /\ aggRet[c] = FromStored(aggSeen[c].item.data)
                  /\ NoObserverInvoked(c))

\* in every step: the table changes only by a call's successful write, and then the
\* entry of its url becomes exactly what that call wrote, whatever was stored before
RaceStep ==
    /\ table' # table =>
           \E c \in Callers :
               /\ ~Wrote(c) /\ aggWrite'[c] # NoWrite /\ aggWrite'[c].wr = "ok"
               /\ table' = [table EXCEPT ![aggUrl[c]] =
                                [data |-> aggChecks[c], timestamp |-> isoformat(now),
                                 ttl |-> now + TtlMinutes]]
    /\ \A c \in Callers :
           (~Wrote(c) /\ aggWrite'[c] # NoWrite /\ aggWrite'[c].wr = "ok") =>
               table'[aggUrl[c]] = [data |-> aggWrite'[c].data,
                                    timestamp |-> isoformat(aggWrite'[c].at),
                                    ttl |-> aggWrite'[c].at + TtlMinutes]

\* C16: under every interleaving of two calls for the same url, each call that misses
\* does its own fan-out, the entry stored for the url is at all times exactly the complete
\* mapping, with its own timestamp, written by a single call, the latest write replacing
\* the previous one and never merging with it, and a call that reads a fresh entry
\* returns that entry
C16_CacheMissRace == []RaceInv /\ [][RaceStep]_vars

\* both calls missed and fanned out side by side, they collected different mappings, the
\* first wrote, the second wrote a minute later, and the table holds the second's alone
C16_Witness ==
    /\ aggPc["c1"] = "done" /\ aggPc["c2"] = "done"
    /\ FannedOut("c1") /\ FannedOut("c2")
    /\ aggSeen["c1"].item = NoItem /\ aggSeen["c2"].item = NoItem
    /\ Wrote("c1") /\ aggWrite["c1"].wr = "ok"
    /\ Wrote("c2") /\ aggWrite["c2"].wr = "ok"
    /\ aggWrite["c1"].at < aggWrite["c2"].at
    /\ Keys(aggWrite["c1"].data) = Observers
    /\ Keys(aggWrite["c2"].data) # Observers
    /\ table[RaceUrl] = WrittenItem("c2")

\* a call read the entry that the other call had just written and returned it
C16_WitnessHit ==
    /\ aggPc["c2"] = "done"
    /\ NoObserverInvoked("c2")
    /\ Wrote("c1")
    /\ aggSeen["c2"].item = WrittenItem("c1")
    /\ aggRet["c2"] = FromStored(aggWrite["c1"].data)

(***************************************************************************)
(* The local answer and the external corroboration                         *)
(***************************************************************************)

\* a lambda_handler request was answered
LhAnswered == reqEntry = "lambda_handler" /\ reqPc = "done"

\* C17, as stated: for a url that passes is_valid_url, lambda_handler answers 200 with
\* the status, detailed_checks and summary of the local check, whatever the aggregation
\* returned, and external_checks is in the response if and only if the aggregation
\* returned a non-empty mapping
C17_ExternalNeverAbortsLocal ==
    (LhAnswered /\ is_valid_url(reqUrl)) =>
        /\ resp.statusCode = 200
        /\ Body.status = reqLocal.status
        /\ Body.detailed_checks = reqLocal.detailed_checks
        /\ Body.summary = reqLocal.summary
        /\ ("external_checks" \in DOMAIN Body) <=> Truthy(reqExt)

(***************************************************************************)
(* The observers, each called on its own                                   *)
(***************************************************************************)

\* one of the three observer functions is called with url, and its requests do net
ObserverCall(svc, url, net) ==
    /\ obsSvc' = svc
    /\ obsUrl' = url
    /\ obsNet' = net
    /\ obsResult' = RunObserver(svc, url, net)
    /\ UNCHANGED <<chkUrl, chkProbes, chkResult, dnsAttempts, dnsResult, awsRegion, evCur, evPrev,
                   stepVars>>
    /\ UNCHANGED <<aggVars, reqVars>>

ObserverNext ==
    \E svc \in Observers, url \in Urls : \E net \in ObserverNets[svc] : ObserverCall(svc, url, net)

SpecObserver == Init /\ [][ObserverNext]_vars

\* check_downforeveryoneorjustme was called and its request was answered with a page
PageFetched ==
    /\ obsSvc = "downforeveryoneorjustme"
    /\ obsResult \notin {NoRet, Raised}
    /\ obsNet[1].kind = "resp"

\* C19, as stated: when the fetched page contains 'not just you' the observer returns
\* 'down', when it contains 'just you' but not 'not just you' it returns 'up', and when
\* it contains neither it returns 'unknown'
C19_PageTextDecidesStatus ==
    PageFetched =>
        LET txt == obsNet[1].text
            not_just_you == IsIn(<<"not", "just", "you">>, txt)
            just_you == IsIn(<<"just", "you">>, txt)
        IN  /\ obsResult # None
            /\ not_just_you => obsResult.status = "down"
            /\ (just_you /\ ~not_just_you) => obsResult.status = "up"
            /\ (~just_you /\ ~not_just_you) => obsResult.status = "unknown"

(***************************************************************************)
(* The target of the local check and the target of the aggregation         *)
(***************************************************************************)

\* the host an observer queries for url: the netloc of the url as given
ObserverHost(url) == hostname(urlparse(url))

\* C20, as stated: in a lambda_handler request that went on to the aggregation, the host
\* the observers query is the host the local check probed, and the cache key is the
\* scheme-defaulted url, so that "x.com" and "https://x.com" share one cache entry
C20_SameTargetLocalAndExternal ==
    (reqEntry = "lambda_handler" /\ reqLocal # NoCheck /\ HasRead(HandlerCaller)) =>
        /\ urlparse(aggUrl[HandlerCaller]) # Raised
        /\ ObserverHost(aggUrl[HandlerCaller]) = reqLocal.domain
        /\ aggUrl[HandlerCaller] = ensure_protocol(reqUrl)
        /\ aggUrl[HandlerCaller] = reqLocal.url

====
